---- MODULE Spec2Model ----
(***************************************************************************)
(* A model of dstack's AWS resource provisioning                           *)
(* (src/dstack/_internal/core/backends/aws/resources.py): the security     *)
(* group and gateway group provisioners, the IAM role / policy / instance  *)
(* profile provisioner, the rule matcher and the subnet resolver, run      *)
(* against a remote backend (EC2 / IAM) that is shared state.              *)
(*                                                                         *)
(* Every remote call of the code is one atomic step of a process; what a   *)
(* process holds between two calls (its arguments and locals) is in `loc`. *)
(***************************************************************************)
EXTENDS Integers, Sequences, FiniteSets, TLC

\* ------------------------------------------------------------- bounds

\* Invocations one run of the model starts.
MaxInv == 2

\* ------------------------------------------------- Python values

\* A Python value carries its type: dict (a function from keys), list (a
\* sequence), str or int.
PyDict(f) == [t |-> "dict", v |-> f]
PyList(s) == [t |-> "list", v |-> s]
PyStr(s) == [t |-> "str", v |-> s]
PyInt(n) == [t |-> "int", v |-> n]

\* Optional results: None is the empty tuple, a value x is <<x>>.
None == <<>>
Some(x) == <<x>>

\* d.get(k, default) of a dict held as a TLA+ record.
Get(d, k, default) == IF k \in DOMAIN d THEN d[k] ELSE default

\* ---------------------------------------------------- the matcher

RECURSIVE _is_subset_same_keys(_, _)
\* Mutant: dict against dict wants the same keys on both sides.
_is_subset_same_keys(subset, superset) ==
    IF subset.t = "dict" /\ superset.t = "dict"
    THEN /\ DOMAIN subset.v = DOMAIN superset.v
         /\ \A k \in DOMAIN subset.v :
                _is_subset_same_keys(subset.v[k], superset.v[k])
    ELSE IF subset.t = "list" /\ superset.t = "list"
    THEN /\ Len(subset.v) = Len(superset.v)
         /\ \A i \in 1..Len(subset.v) :
                _is_subset_same_keys(subset.v[i], superset.v[i])
    ELSE subset.t = superset.t /\ subset.v = superset.v

RECURSIVE _is_subset_zip(_, _)
\* Mutant: list against list is pairwise over the shorter length, as zip
\* alone would have it.
_is_subset_zip(subset, superset) ==
    IF subset.t = "dict" /\ superset.t = "dict"
    THEN \A k \in DOMAIN subset.v :
            k \in DOMAIN superset.v
            /\ _is_subset_zip(subset.v[k], superset.v[k])
    ELSE IF subset.t = "list" /\ superset.t = "list"
    THEN \A i \in 1..Len(subset.v) :
            i <= Len(superset.v) => _is_subset_zip(subset.v[i], superset.v[i])
    ELSE subset.t = superset.t /\ subset.v = superset.v

RECURSIVE _is_subset(_, _)
\* _is_subset: dict against dict is containment key by key, list against list
\* is equal length and pairwise, anything else is equality.
_is_subset(subset, superset) ==
    IF subset.t = "dict" /\ superset.t = "dict"
    THEN \A k \in DOMAIN subset.v :
            k \in DOMAIN superset.v /\ _is_subset(subset.v[k], superset.v[k])
    ELSE IF subset.t = "list" /\ superset.t = "list"
    THEN /\ Len(subset.v) = Len(superset.v)
         /\ \A i \in 1..Len(subset.v) : _is_subset(subset.v[i], superset.v[i])
    ELSE subset.t = superset.t /\ subset.v = superset.v

\* _rule_exists: some existing rule includes the wanted one.
_rule_exists(rule, rules) ==
    \E i \in 1..Len(rules) : _is_subset(rule, rules[i])

\* ------------------------------------------------ name derivation

\* str.lower() on the characters project ids are made of here.
Lower(c) ==
    CASE c = "A" -> "a"
      [] c = "B" -> "b"
      [] c = "C" -> "c"
      [] OTHER -> c

\* project_id.replace("-", "_").lower(); a project id is a sequence of
\* characters.
Normalize(project_id) ==
    [i \in DOMAIN project_id |->
        Lower(IF project_id[i] = "-" THEN "_" ELSE project_id[i])]

security_group_name(project_id) ==
    <<"dstack_security_group_">> \o Normalize(project_id)

gateway_group_name(project_id) == <<"dstack_gw_sg_">> \o Normalize(project_id)

role_name_of(project_id) == <<"dstack_role_">> \o Normalize(project_id)

policy_name_of(project_id) == <<"dstack_policy_">> \o Normalize(project_id)

\* The project ids the model provisions for: two that differ only in "-"
\* against "_", and an unrelated one.
ProjA == <<"a", "-", "b">>
ProjB == <<"a", "_", "b">>
ProjC == <<"C">>
Projects == {ProjA, ProjB, ProjC}

\* ------------------------------------------------------- the state

Procs == {1, 2}

\* The VPCs of the account; a group created without VpcId lands in the
\* default one.
DefaultVpc == "vpc-default"
OtherVpc == "vpc-1"
Vpcs == {DefaultVpc, OtherVpc}
NoVpc == "None"

VARIABLES
    groups,     \* EC2: the security groups, in creation order
    iam,        \* IAM: policies, roles, attachments, instance profiles
    pc,         \* pc[p]: the remote call process p makes next, or "idle"
    loc,        \* loc[p]: the arguments and locals of p's invocation
    calls,      \* calls[p]: the remote write calls p's invocation has made
    last,       \* last[p]: the record of p's latest finished invocation
    prev,       \* prev[p]: the record of the one before it
    ninv,       \* invocations started
    sgCreates,  \* every create_security_group call made: <<name, vpc>>
    net,        \* EC2: the subnets and route tables of the VPC resolved
    want,       \* the subnet request: allocate_public_ip
    subnet,     \* the resolver's answer, once it has run
    images,     \* EC2: the images of the account, as describe_images lists
    image,      \* the outcome of get_image_id, once it has run
    struct,     \* the arguments and result of create_instances_struct
    matched     \* the operands and verdicts of _is_subset

vars == <<groups, iam, pc, loc, calls, last, prev, ninv, sgCreates,
          net, want, subnet, images, image, struct, matched>>

sgVars == <<groups, sgCreates>>
netVars == <<net, want, subnet>>
pureVars == <<images, image, struct, matched>>

\* No invocation yet.
NoRecord == [op |-> "none"]

\* --------------------------------------- the rules the code requires

SshRule ==
    PyDict([FromPort |-> PyInt(22), ToPort |-> PyInt(22),
            IpProtocol |-> PyStr("tcp"),
            IpRanges |-> PyList(<<PyDict([CidrIp |-> PyStr("0.0.0.0/0")])>>)])

\* Mutant: the source of the second rule is the account's first group, not
\* the group the rule is added to.
SelfRule_first_group(security_group_id) ==
    PyDict([IpProtocol |-> PyStr("-1"),
            UserIdGroupPairs |-> PyList(<<PyDict([GroupId |-> PyInt(1)])>>)])

SelfRule(security_group_id) ==
    PyDict([IpProtocol |-> PyStr("-1"),
            UserIdGroupPairs |->
                PyList(<<PyDict([GroupId |-> PyInt(security_group_id)])>>)])

EgressRule == PyDict([IpProtocol |-> PyStr("-1")])

GatewayIngressRule ==
    PyDict([FromPort |-> PyInt(0), ToPort |-> PyInt(65535),
            IpProtocol |-> PyStr("tcp"),
            IpRanges |-> PyList(<<PyDict([CidrIp |-> PyStr("0.0.0.0/0")])>>)])

\* ------------------------------------------------ the EC2 remote

\* Mutant: the vpc-id filter is added even when vpc_id is None.
describe_security_groups_always_vpc(name, vpc_id) ==
    SelectSeq(groups, LAMBDA g : g.GroupName = name /\ g.VpcId = vpc_id)

\* Mutant: the vpc-id filter is never added.
describe_security_groups_name_only(name, vpc_id) ==
    SelectSeq(groups, LAMBDA g : g.GroupName = name)

\* Lines 119-133 (and 263-272): describe_security_groups with the group-name
\* filter, and the vpc-id filter when vpc_id is not None: the matching
\* groups, in creation order.
describe_security_groups(name, vpc_id) ==
    SelectSeq(groups, LAMBDA g :
        g.GroupName = name /\ (vpc_id # NoVpc => g.VpcId = vpc_id))

\* The VPC a create without VpcId lands in.
TargetVpc(vpc_id) == IF vpc_id = NoVpc THEN DefaultVpc ELSE vpc_id

\* EC2 keeps group names unique within a VPC: a second create of the name
\* raises InvalidGroup.Duplicate.
GroupExists(name, vpc) ==
    \E i \in 1..Len(groups) :
        groups[i].GroupName = name /\ groups[i].VpcId = vpc

NewGroup(name, vpc, project_id) ==
    [GroupId |-> Len(groups) + 1, GroupName |-> name, VpcId |-> vpc,
     Project |-> project_id, IpPermissions |-> <<>>,
     IpPermissionsEgress |-> <<>>]

\* The group with this id (ids are positions: no group is ever deleted).
GroupById(id) == groups[id]

\* authorize_security_group_ingress / _egress: the rule joins the group's
\* list.
WithRule(gs, id, field, rule) ==
    [gs EXCEPT ![id] = [@ EXCEPT ![field] = Append(@, rule)]]

\* ------------------------------------------- a process's invocation

IdleLoc ==
    [op |-> "none", project_id |-> <<>>, vpc_id |-> NoVpc,
     security_group |-> None, role_name |-> None, policy_arn |-> None,
     instance_profile_arn |-> None, seen |-> {}, fresh |-> FALSE]

\* The group id an invocation holds, if it has one yet.
HeldGroup(l) ==
    IF l.security_group = None THEN None
    ELSE Some(l.security_group[1].GroupId)

\* One remote write call, as the log keeps it: the call, its argument, and
\* whether the remote already held what it adds.
Call(fn, arg, dup) == [fn |-> fn, arg |-> arg, dup |-> dup]

\* The invocation ends: it returned (status "ok"), raised (the error code) or
\* was interrupted; its record becomes the process's latest.
Finish(p, status, result, log) ==
    /\ prev' = [prev EXCEPT ![p] = last[p]]
    /\ last' = [last EXCEPT ![p] =
            [op |-> loc[p].op, project_id |-> loc[p].project_id,
             vpc_id |-> loc[p].vpc_id, status |-> status, result |-> result,
             gid |-> IF result # None /\ loc[p].op # "iam" THEN result
                     ELSE HeldGroup(loc[p]),
             role |-> loc[p].role_name, seen |-> loc[p].seen,
             calls |-> log, fresh |-> loc[p].fresh]]
    /\ pc' = [pc EXCEPT ![p] = "idle"]
    /\ loc' = [loc EXCEPT ![p] = IdleLoc]
    /\ calls' = [calls EXCEPT ![p] = <<>>]

\* ------------------------------------------ create_security_group

StartSG(p) ==
    /\ pc[p] = "idle"
    /\ ninv < MaxInv
    /\ \E project_id \in Projects, vpc_id \in Vpcs \cup {NoVpc} :
         loc' = [loc EXCEPT ![p] =
            [IdleLoc EXCEPT !.op = "sg", !.project_id = project_id,
                !.vpc_id = vpc_id,
                !.fresh = describe_security_groups(
                              security_group_name(project_id), NoVpc) = <<>>]]
    /\ pc' = [pc EXCEPT ![p] = "sg_describe"]
    /\ ninv' = ninv + 1
    /\ UNCHANGED <<groups, sgCreates, iam, calls, last, prev, netVars, pureVars>>

\* Lines 119-136: look the group up by name (and VPC); reuse the first found.
SgDescribe(p) ==
    /\ pc[p] = "sg_describe"
    /\ LET response == describe_security_groups(
                security_group_name(loc[p].project_id), loc[p].vpc_id)
       IN IF response # <<>>
          THEN /\ loc' = [loc EXCEPT ![p].security_group = Some(response[1])]
               /\ pc' = [pc EXCEPT ![p] = "sg_rule1"]
          ELSE /\ pc' = [pc EXCEPT ![p] = "sg_create"]
               /\ UNCHANGED loc
    /\ UNCHANGED <<groups, sgCreates, iam, calls, last, prev, ninv, netVars, pureVars>>

\* Lines 137-154: create the group; the response holds the new GroupId and
\* no rule lists. An existing name in the VPC raises.
SgCreate(p) ==
    /\ pc[p] = "sg_create"
    /\ LET name == security_group_name(loc[p].project_id)
           vpc == TargetVpc(loc[p].vpc_id)
           log == Append(calls[p],
                         Call("create_security_group", <<name, vpc>>,
                              GroupExists(name, vpc)))
       IN /\ sgCreates' = Append(sgCreates, <<name, vpc>>)
          /\ IF GroupExists(name, vpc)
             THEN /\ Finish(p, "InvalidGroup.Duplicate", None, log)
                  /\ UNCHANGED groups
             ELSE /\ groups' = Append(groups,
                                  NewGroup(name, vpc, loc[p].project_id))
                  /\ loc' = [loc EXCEPT ![p].security_group =
                                Some([GroupId |-> Len(groups) + 1])]
                  /\ calls' = [calls EXCEPT ![p] = log]
                  /\ pc' = [pc EXCEPT ![p] = "sg_rule1"]
                  /\ UNCHANGED <<last, prev>>
    /\ UNCHANGED <<iam, ninv, netVars, pureVars>>

\* _add_ingress_security_group_rule_if_missing and its egress twin: the
\* groups and the call log after it. The check reads the rule list the
\* process holds (security_group.get(field, [])), not the remote's.
\* Mutant: the rule is added whether or not the group has it.
RuleAlwaysMissing(p, field, rule) == TRUE

RuleMissing(p, field, rule) ==
    ~_rule_exists(rule, Get(loc[p].security_group[1], field, <<>>))

GroupsAfterAdd(p, field, rule) ==
    IF RuleMissing(p, field, rule)
    THEN WithRule(groups, loc[p].security_group[1].GroupId, field, rule)
    ELSE groups

LogAfterAdd(p, field, rule) ==
    IF RuleMissing(p, field, rule)
    THEN Append(calls[p],
            Call(IF field = "IpPermissions"
                 THEN "authorize_security_group_ingress"
                 ELSE "authorize_security_group_egress",
                 rule,
                 _rule_exists(rule,
                    GroupById(loc[p].security_group[1].GroupId)[field])))
    ELSE calls[p]

\* Lines 156-166: the SSH ingress rule.
SgRule1(p) ==
    /\ pc[p] = "sg_rule1"
    /\ groups' = GroupsAfterAdd(p, "IpPermissions", SshRule)
    /\ calls' = [calls EXCEPT ![p] = LogAfterAdd(p, "IpPermissions", SshRule)]
    /\ pc' = [pc EXCEPT ![p] = "sg_rule2"]
    /\ UNCHANGED <<sgCreates, iam, loc, last, prev, ninv, netVars, pureVars>>

\* Lines 167-175: the ingress rule from the group itself.
SgRule2(p) ==
    /\ pc[p] = "sg_rule2"
    /\ LET rule == SelfRule(loc[p].security_group[1].GroupId)
       IN /\ groups' = GroupsAfterAdd(p, "IpPermissions", rule)
          /\ calls' = [calls EXCEPT ![p] =
                          LogAfterAdd(p, "IpPermissions", rule)]
    /\ pc' = [pc EXCEPT ![p] = "sg_rule3"]
    /\ UNCHANGED <<sgCreates, iam, loc, last, prev, ninv, netVars, pureVars>>

\* Lines 176-182: the egress rule, and the return of the group id.
SgRule3(p) ==
    /\ pc[p] = "sg_rule3"
    /\ groups' = GroupsAfterAdd(p, "IpPermissionsEgress", EgressRule)
    /\ Finish(p, "ok", Some(loc[p].security_group[1].GroupId),
              LogAfterAdd(p, "IpPermissionsEgress", EgressRule))
    /\ UNCHANGED <<sgCreates, iam, ninv, netVars, pureVars>>

\* The process dies between two remote calls (after its first one).
Interrupt(p) ==
    /\ pc[p] \notin {"idle", "sg_describe", "gw_describe", "iam_get_role"}
    /\ Finish(p, "interrupted", None, calls[p])
    /\ UNCHANGED <<groups, sgCreates, iam, ninv, netVars, pureVars>>

\* --------------------------------- create_gateway_security_group

StartGW(p) ==
    /\ pc[p] = "idle"
    /\ ninv < MaxInv
    /\ \E project_id \in Projects :
         loc' = [loc EXCEPT ![p] =
            [IdleLoc EXCEPT !.op = "gw", !.project_id = project_id,
                !.fresh = describe_security_groups(
                              gateway_group_name(project_id), NoVpc) = <<>>]]
    /\ pc' = [pc EXCEPT ![p] = "gw_describe"]
    /\ ninv' = ninv + 1
    /\ UNCHANGED <<groups, sgCreates, iam, calls, last, prev, netVars, pureVars>>

\* Lines 263-274: look the group up by name; a group found is returned as
\* it is.
GwDescribe(p) ==
    /\ pc[p] = "gw_describe"
    /\ LET response == describe_security_groups(
                gateway_group_name(loc[p].project_id), NoVpc)
       IN IF response # <<>>
          THEN Finish(p, "ok", Some(response[1].GroupId), calls[p])
          ELSE /\ pc' = [pc EXCEPT ![p] = "gw_create"]
               /\ UNCHANGED <<loc, calls, last, prev>>
    /\ UNCHANGED <<groups, sgCreates, iam, ninv, netVars, pureVars>>

\* Lines 276-290: create the group.
GwCreate(p) ==
    /\ pc[p] = "gw_create"
    /\ LET name == gateway_group_name(loc[p].project_id)
           log == Append(calls[p],
                         Call("create_security_group", <<name, DefaultVpc>>,
                              GroupExists(name, DefaultVpc)))
       IN /\ sgCreates' = Append(sgCreates, <<name, DefaultVpc>>)
          /\ IF GroupExists(name, DefaultVpc)
             THEN /\ Finish(p, "InvalidGroup.Duplicate", None, log)
                  /\ UNCHANGED groups
             ELSE /\ groups' = Append(groups,
                            NewGroup(name, DefaultVpc, loc[p].project_id))
                  /\ loc' = [loc EXCEPT ![p].security_group =
                                Some([GroupId |-> Len(groups) + 1])]
                  /\ calls' = [calls EXCEPT ![p] = log]
                  /\ pc' = [pc EXCEPT ![p] = "gw_ingress"]
                  /\ UNCHANGED <<last, prev>>
    /\ UNCHANGED <<iam, ninv, netVars, pureVars>>

\* Lines 292-302: the ingress rule, added without a check.
GwIngress(p) ==
    /\ pc[p] = "gw_ingress"
    /\ LET id == loc[p].security_group[1].GroupId
       IN /\ groups' = WithRule(groups, id, "IpPermissions",
                                GatewayIngressRule)
          /\ calls' = [calls EXCEPT ![p] = Append(@,
                Call("authorize_security_group_ingress", GatewayIngressRule,
                     _rule_exists(GatewayIngressRule,
                                  GroupById(id).IpPermissions)))]
    /\ pc' = [pc EXCEPT ![p] = "gw_egress"]
    /\ UNCHANGED <<sgCreates, iam, loc, last, prev, ninv, netVars, pureVars>>

\* Lines 304-308: the egress rule, and the return of the group id.
GwEgress(p) ==
    /\ pc[p] = "gw_egress"
    /\ LET id == loc[p].security_group[1].GroupId
       IN /\ groups' = WithRule(groups, id, "IpPermissionsEgress", EgressRule)
          /\ Finish(p, "ok", Some(id),
                Append(calls[p],
                    Call("authorize_security_group_egress", EgressRule,
                         _rule_exists(EgressRule,
                                      GroupById(id).IpPermissionsEgress))))
    /\ UNCHANGED <<sgCreates, iam, ninv, netVars, pureVars>>

\* ------------------------------------------------ the IAM remote

\* What IAM names its entities: an ARN is made of the entity's kind and name.
PolicyArn(name) == <<"arn:aws:iam::policy/", name>>
InstanceProfileArn(name) == <<"arn:aws:iam::instance-profile/", name>>

\* An entity as created: its name, and the dstack_project tag.
Entity(name, project_id) == [name |-> name, project |-> project_id]

Named(entities, name) == \E e \in entities : e.name = name

\* The errors a lookup can raise besides NoSuchEntity.
OtherErrors == {"AccessDenied"}

\* --------------------------------------- create_iam_instance_profile

StartIAM(p) ==
    /\ pc[p] = "idle"
    /\ ninv < MaxInv
    /\ \E project_id \in Projects :
         loc' = [loc EXCEPT ![p] =
            [IdleLoc EXCEPT !.op = "iam", !.project_id = project_id,
                !.fresh = /\ ~Named(iam.policies, policy_name_of(project_id))
                          /\ ~Named(iam.roles, role_name_of(project_id))
                          /\ ~Named(iam.profiles, role_name_of(project_id))]]
    /\ pc' = [pc EXCEPT ![p] = "iam_get_role"]
    /\ ninv' = ninv + 1
    /\ UNCHANGED <<groups, sgCreates, iam, calls, last, prev, netVars, pureVars>>

\* Mutant: every error of get_role is taken for NoSuchEntity.
IamGetRole_any_error(p) ==
    /\ pc[p] = "iam_get_role"
    /\ LET role_name == role_name_of(loc[p].project_id)
           seen == {k \in {"policy", "role"} :
                      \/ k = "policy" /\ Named(iam.policies,
                                            policy_name_of(loc[p].project_id))
                      \/ k = "role" /\ Named(iam.roles, role_name)}
       IN \/ /\ Named(iam.roles, role_name)
             /\ loc' = [loc EXCEPT ![p].role_name = Some(role_name),
                                   ![p].seen = seen]
             /\ pc' = [pc EXCEPT ![p] = "iam_get_profile"]
          \/ /\ loc' = [loc EXCEPT ![p].seen = seen]
             /\ pc' = [pc EXCEPT ![p] = "iam_create_policy"]
    /\ UNCHANGED <<groups, sgCreates, iam, calls, last, prev, ninv, netVars, pureVars>>

\* Lines 28-36: get_role. A role found ends create_role_and_policy at once;
\* NoSuchEntity leads on to the creates; any other error is raised.
IamGetRole(p) ==
    /\ pc[p] = "iam_get_role"
    /\ LET role_name == role_name_of(loc[p].project_id)
           seen == {k \in {"policy", "role"} :
                      \/ k = "policy" /\ Named(iam.policies,
                                            policy_name_of(loc[p].project_id))
                      \/ k = "role" /\ Named(iam.roles, role_name)}
       IN \/ /\ Named(iam.roles, role_name)
             /\ loc' = [loc EXCEPT ![p].role_name = Some(role_name),
                                   ![p].seen = seen]
             /\ pc' = [pc EXCEPT ![p] = "iam_get_profile"]
             /\ UNCHANGED <<calls, last, prev>>
          \/ /\ ~Named(iam.roles, role_name)
             /\ loc' = [loc EXCEPT ![p].seen = seen]
             /\ pc' = [pc EXCEPT ![p] = "iam_create_policy"]
             /\ UNCHANGED <<calls, last, prev>>
          \/ \E code \in OtherErrors : Finish(p, code, None, calls[p])
    /\ UNCHANGED <<groups, sgCreates, iam, ninv, netVars, pureVars>>

\* Lines 38-63: create_policy; a policy of the name raises.
IamCreatePolicy(p) ==
    /\ pc[p] = "iam_create_policy"
    /\ LET policy_name == policy_name_of(loc[p].project_id)
           log == Append(calls[p], Call("create_policy", policy_name,
                                        Named(iam.policies, policy_name)))
       IN IF Named(iam.policies, policy_name)
          THEN /\ Finish(p, "EntityAlreadyExists", None, log)
               /\ UNCHANGED iam
          ELSE /\ iam' = [iam EXCEPT !.policies =
                            @ \cup {Entity(policy_name, loc[p].project_id)}]
               /\ loc' = [loc EXCEPT ![p].policy_arn =
                            Some(PolicyArn(policy_name))]
               /\ calls' = [calls EXCEPT ![p] = log]
               /\ pc' = [pc EXCEPT ![p] = "iam_create_role"]
               /\ UNCHANGED <<last, prev>>
    /\ UNCHANGED <<groups, sgCreates, ninv, netVars, pureVars>>

\* Lines 64-84: create_role; a role of the name raises.
IamCreateRole(p) ==
    /\ pc[p] = "iam_create_role"
    /\ LET role_name == role_name_of(loc[p].project_id)
           log == Append(calls[p], Call("create_role", role_name,
                                        Named(iam.roles, role_name)))
       IN IF Named(iam.roles, role_name)
          THEN /\ Finish(p, "EntityAlreadyExists", None, log)
               /\ UNCHANGED iam
          ELSE /\ iam' = [iam EXCEPT !.roles =
                            @ \cup {Entity(role_name, loc[p].project_id)}]
               /\ calls' = [calls EXCEPT ![p] = log]
               /\ pc' = [pc EXCEPT ![p] = "iam_attach_role_policy"]
               /\ UNCHANGED <<loc, last, prev>>
    /\ UNCHANGED <<groups, sgCreates, ninv, netVars, pureVars>>

\* Lines 85-86: attach_role_policy, and the return of the role name.
IamAttachRolePolicy(p) ==
    /\ pc[p] = "iam_attach_role_policy"
    /\ LET role_name == role_name_of(loc[p].project_id)
           pair == <<role_name, loc[p].policy_arn[1]>>
       IN /\ iam' = [iam EXCEPT !.attached = @ \cup {pair}]
          /\ calls' = [calls EXCEPT ![p] = Append(@,
                Call("attach_role_policy", pair, pair \in iam.attached))]
          /\ loc' = [loc EXCEPT ![p].role_name = Some(role_name)]
    /\ pc' = [pc EXCEPT ![p] = "iam_get_profile"]
    /\ UNCHANGED <<groups, sgCreates, last, prev, ninv, netVars, pureVars>>

\* Mutant: the lookup never finds the profile.
get_instance_profile_never(role_name) == FALSE

\* Line 93: get_instance_profile(InstanceProfileName=role_name) finds one.
get_instance_profile(role_name) == Named(iam.profiles, role_name)

\* Lines 90-97: get_instance_profile by the role's name. A profile found is
\* returned; NoSuchEntity leads on to the create; any other error is raised.
IamGetProfile(p) ==
    /\ pc[p] = "iam_get_profile"
    /\ LET role_name == loc[p].role_name[1]
           seen == loc[p].seen \cup
                   (IF Named(iam.profiles, role_name) THEN {"instance_profile"}
                    ELSE {})
       IN \/ /\ get_instance_profile(role_name)
             /\ Finish(p, "ok", Some(InstanceProfileArn(role_name)), calls[p])
          \/ /\ ~get_instance_profile(role_name)
             /\ pc' = [pc EXCEPT ![p] = "iam_create_instance_profile"]
             /\ loc' = [loc EXCEPT ![p].seen = seen]
             /\ UNCHANGED <<calls, last, prev>>
          \/ \E code \in OtherErrors : Finish(p, code, None, calls[p])
    /\ UNCHANGED <<groups, sgCreates, iam, ninv, netVars, pureVars>>

\* Lines 99-106: create_instance_profile; a profile of the name raises.
IamCreateInstanceProfile(p) ==
    /\ pc[p] = "iam_create_instance_profile"
    /\ LET role_name == loc[p].role_name[1]
           log == Append(calls[p], Call("create_instance_profile", role_name,
                                        Named(iam.profiles, role_name)))
       IN IF Named(iam.profiles, role_name)
          THEN /\ Finish(p, "EntityAlreadyExists", None, log)
               /\ UNCHANGED iam
          ELSE /\ iam' = [iam EXCEPT !.profiles =
                            @ \cup {Entity(role_name, loc[p].project_id)}]
               /\ loc' = [loc EXCEPT ![p].instance_profile_arn =
                            Some(InstanceProfileArn(role_name))]
               /\ calls' = [calls EXCEPT ![p] = log]
               /\ pc' = [pc EXCEPT ![p] = "iam_add_role"]
               /\ UNCHANGED <<last, prev>>
    /\ UNCHANGED <<groups, sgCreates, ninv, netVars, pureVars>>

\* Lines 107-111: add_role_to_instance_profile, and the return of the ARN.
IamAddRole(p) ==
    /\ pc[p] = "iam_add_role"
    /\ LET role_name == loc[p].role_name[1]
           pair == <<role_name, role_name>>
       IN /\ iam' = [iam EXCEPT !.profile_roles = @ \cup {pair}]
          /\ Finish(p, "ok", loc[p].instance_profile_arn,
                Append(calls[p], Call("add_role_to_instance_profile", pair,
                                      pair \in iam.profile_roles)))
    /\ UNCHANGED <<groups, sgCreates, ninv, netVars, pureVars>>

\* ------------------------------------------------- initial states

\* A security group as the remote holds it.
Group(id, name, vpc, project_id, ingress, egress) ==
    [GroupId |-> id, GroupName |-> name, VpcId |-> vpc,
     Project |-> project_id, IpPermissions |-> ingress,
     IpPermissionsEgress |-> egress]

\* Rules as EC2 reports them: with the fields it adds to what was asked.
ReportedSshRule ==
    PyDict([FromPort |-> PyInt(22), ToPort |-> PyInt(22),
            IpProtocol |-> PyStr("tcp"),
            IpRanges |-> PyList(<<PyDict([CidrIp |-> PyStr("0.0.0.0/0")])>>),
            Ipv6Ranges |-> PyList(<<>>)])

ReportedSelfRule(id) ==
    PyDict([IpProtocol |-> PyStr("-1"),
            IpRanges |-> PyList(<<>>),
            UserIdGroupPairs |->
                PyList(<<PyDict([GroupId |-> PyInt(id),
                                 UserId |-> PyStr("account")])>>)])

ReportedEgressRule ==
    PyDict([IpProtocol |-> PyStr("-1"),
            IpRanges |-> PyList(<<PyDict([CidrIp |-> PyStr("0.0.0.0/0")])>>)])

\* An SSH rule open to a second range as well.
WideSshRule ==
    PyDict([FromPort |-> PyInt(22), ToPort |-> PyInt(22),
            IpProtocol |-> PyStr("tcp"),
            IpRanges |-> PyList(<<PyDict([CidrIp |-> PyStr("0.0.0.0/0")]),
                                  PyDict([CidrIp |-> PyStr("10.0.0.0/8")])>>)])

\* The remote states a run starts from: no group; a group of ProjA's name
\* without rules, with all its rules, in the other VPC with the SSH rule
\* only, with an SSH rule of two ranges; and one in each VPC.
InitialGroups(i) ==
    LET name == security_group_name(ProjA)
    IN CASE i = 1 -> <<>>
         [] i = 2 -> <<Group(1, name, DefaultVpc, ProjA, <<>>, <<>>)>>
         [] i = 3 -> <<Group(1, name, DefaultVpc, ProjA,
                             <<ReportedSshRule, ReportedSelfRule(1)>>,
                             <<ReportedEgressRule>>)>>
         [] i = 4 -> <<Group(1, name, OtherVpc, ProjA,
                             <<ReportedSshRule>>, <<>>)>>
         [] i = 5 -> <<Group(1, name, DefaultVpc, ProjA,
                             <<WideSshRule>>, <<ReportedEgressRule>>)>>
         [] i = 6 -> <<Group(1, name, OtherVpc, ProjA, <<>>, <<>>),
                       Group(2, name, DefaultVpc, ProjA, <<>>, <<>>)>>

InitialGroupStates == 1..6

EmptyIam ==
    [policies |-> {}, roles |-> {}, attached |-> {}, profiles |-> {},
     profile_roles |-> {}]

NoNet == [subnets |-> <<>>, tables |-> <<>>]

InitProcs ==
    /\ pc = [p \in Procs |-> "idle"]
    /\ loc = [p \in Procs |-> IdleLoc]
    /\ calls = [p \in Procs |-> <<>>]
    /\ last = [p \in Procs |-> NoRecord]
    /\ prev = [p \in Procs |-> NoRecord]
    /\ ninv = 0

\* Nothing resolved or built yet, and no image in the account.
InitPure == images = <<>> /\ image = None /\ struct = None /\ matched = None

InitSG ==
    /\ \E i \in InitialGroupStates : groups = InitialGroups(i)
    /\ sgCreates = <<>>
    /\ iam = EmptyIam
    /\ InitProcs
    /\ net = NoNet /\ want = FALSE /\ subnet = None
    /\ InitPure

\* ------------------- security groups, one invocation after another

NextSG ==
    \/ StartSG(1) \/ SgDescribe(1) \/ SgCreate(1)
    \/ SgRule1(1) \/ SgRule2(1) \/ SgRule3(1)
    \/ StartGW(1) \/ GwDescribe(1) \/ GwCreate(1)
    \/ GwIngress(1) \/ GwEgress(1)
    \/ Interrupt(1)

SpecSG == InitSG /\ [][NextSG]_vars

\* ------------------------------ what the security group claims say

\* The create_security_group calls of a call log.
CreateCount(log) ==
    Cardinality({i \in 1..Len(log) : log[i].fn = "create_security_group"})

\* The rule additions of a call log.
AddCount(log) ==
    Cardinality({i \in 1..Len(log) :
        log[i].fn \in {"authorize_security_group_ingress",
                       "authorize_security_group_egress"}})

\* The latest two invocations were of op, with the same arguments.
SameArgs(op) ==
    /\ prev[1].op = op /\ last[1].op = op
    /\ prev[1].project_id = last[1].project_id
    /\ prev[1].vpc_id = last[1].vpc_id

\* What a rule of the remote says, read field by field.
IsStr(x, s) == x.t = "str" /\ x.v = s
IsInt(x, n) == x.t = "int" /\ x.v = n

HasCidr(r, cidr) ==
    /\ "IpRanges" \in DOMAIN r.v
    /\ \E i \in 1..Len(r.v.IpRanges.v) :
          IsStr(r.v.IpRanges.v[i].v.CidrIp, cidr)

IsTcpRange(r, from, to) ==
    /\ IsStr(r.v.IpProtocol, "tcp")
    /\ "FromPort" \in DOMAIN r.v /\ IsInt(r.v.FromPort, from)
    /\ "ToPort" \in DOMAIN r.v /\ IsInt(r.v.ToPort, to)
    /\ HasCidr(r, "0.0.0.0/0")

IsFromGroup(r, id) ==
    /\ IsStr(r.v.IpProtocol, "-1")
    /\ "UserIdGroupPairs" \in DOMAIN r.v
    /\ \E i \in 1..Len(r.v.UserIdGroupPairs.v) :
          IsInt(r.v.UserIdGroupPairs.v[i].v.GroupId, id)

IsAllProtocols(r) == IsStr(r.v.IpProtocol, "-1")

\* The group has the three rules create_security_group requires.
HasRequiredRules(g) ==
    /\ \E i \in 1..Len(g.IpPermissions) : IsTcpRange(g.IpPermissions[i], 22, 22)
    /\ \E i \in 1..Len(g.IpPermissions) :
          IsFromGroup(g.IpPermissions[i], g.GroupId)
    /\ \E i \in 1..Len(g.IpPermissionsEgress) :
          IsAllProtocols(g.IpPermissionsEgress[i])

\* The group has the two rules create_gateway_security_group requires.
HasGatewayRules(g) ==
    /\ \E i \in 1..Len(g.IpPermissions) :
          IsTcpRange(g.IpPermissions[i], 0, 65535)
    /\ \E i \in 1..Len(g.IpPermissionsEgress) :
          IsAllProtocols(g.IpPermissionsEgress[i])

\* C1: create_security_group run twice in succession with the same scope and
\* vpc_id, from any remote state: the second run returns, with the id the
\* first returned; the two runs call the remote create at most once, and the
\* second not at all.
C1_TwiceSameGroup ==
    (SameArgs("sg") /\ prev[1].status = "ok" /\ last[1].status # "interrupted")
    => /\ last[1].status = "ok"
       /\ last[1].result = prev[1].result
       /\ CreateCount(prev[1].calls) + CreateCount(last[1].calls) <= 1
       /\ CreateCount(last[1].calls) = 0

\* C1's case: the first of the two runs created the group, the second
\* returned.
C1_Witness ==
    /\ SameArgs("sg") /\ prev[1].status = "ok" /\ last[1].status = "ok"
    /\ CreateCount(prev[1].calls) = 1

\* C5: create_security_group interrupted after one of its remote calls and
\* run again with the same arguments: the second run returns, with the id of
\* the group the first held; it adds no rule the group already has, and the
\* group ends with the three required rules.
C5_ResumeAfterInterrupt ==
    (SameArgs("sg") /\ prev[1].status = "interrupted"
        /\ last[1].status # "interrupted")
    => /\ last[1].status = "ok"
       /\ prev[1].gid # None => last[1].result = prev[1].gid
       /\ \A i \in 1..Len(last[1].calls) : ~last[1].calls[i].dup
       /\ HasRequiredRules(GroupById(last[1].result[1]))

\* C5's case: the first run created the group and added the SSH rule before
\* it was interrupted; the second run added the rest.
C5_Witness ==
    /\ SameArgs("sg") /\ prev[1].status = "interrupted"
    /\ CreateCount(prev[1].calls) = 1 /\ AddCount(prev[1].calls) = 1
    /\ last[1].status = "ok" /\ AddCount(last[1].calls) = 2

\* The additions of ingress rules and of egress rules of a call log.
IngressAdditions(log) ==
    {i \in 1..Len(log) : log[i].fn = "authorize_security_group_ingress"}

EgressAdditions(log) ==
    {i \in 1..Len(log) : log[i].fn = "authorize_security_group_egress"}

\* C17: create_security_group run to its return when no group of the scope's
\* name exists makes one create call and three rule additions on the group it
\* returns: tcp 22 ingress from 0.0.0.0/0, all-protocol ingress from the
\* returned group's own id, all-protocol egress, which are then all the rules
\* of the group; an invocation that returns that group after it adds no rule.
C17_OneGroupThreeRules ==
    /\ (last[1].op = "sg" /\ last[1].fresh /\ last[1].status = "ok") =>
          LET log == last[1].calls
              id == last[1].result[1]
          IN /\ CreateCount(log) = 1 /\ AddCount(log) = 3
             /\ Len(log) = 4
             /\ \E i \in IngressAdditions(log) :
                    /\ IsTcpRange(log[i].arg, 22, 22)
                    /\ Len(log[i].arg.v.IpRanges.v) = 1
             /\ \E i \in IngressAdditions(log) : IsFromGroup(log[i].arg, id)
             /\ \E i \in EgressAdditions(log) : IsAllProtocols(log[i].arg)
             /\ Len(GroupById(id).IpPermissions) = 2
             /\ Len(GroupById(id).IpPermissionsEgress) = 1
             /\ HasRequiredRules(GroupById(id))
    /\ (/\ prev[1].op = "sg" /\ prev[1].fresh /\ prev[1].status = "ok"
        /\ last[1].op = "sg" /\ last[1].status = "ok"
        /\ last[1].result = prev[1].result)
       => AddCount(last[1].calls) = 0

\* C17's case: a run that found no group of the scope's name, on an account
\* that has groups of other names, created one and returned, and the next run
\* returned the same group.
C17_Witness ==
    /\ prev[1].op = "sg" /\ prev[1].fresh /\ prev[1].status = "ok"
    /\ prev[1].result # Some(1)
    /\ last[1].op = "sg" /\ last[1].status = "ok"
    /\ last[1].result = prev[1].result

\* C7: create_gateway_security_group interrupted after the group is created
\* and run again with the same scope: the second run returns the same group
\* id, and the group ends with its ingress and its egress rule.
C7_GatewayResume ==
    (SameArgs("gw") /\ prev[1].status = "interrupted" /\ prev[1].gid # None
        /\ last[1].status # "interrupted")
    => /\ last[1].status = "ok"
       /\ last[1].result = prev[1].gid
       /\ HasGatewayRules(GroupById(last[1].result[1]))

\* C8, as claimed: whatever vpc_id the invocations for one scope give, one
\* security group at most is created for the scope, and every invocation
\* returns that group's id.
C8_OneGroupPerScope ==
    /\ \A i, j \in 1..Len(sgCreates) :
          sgCreates[i][1] = sgCreates[j][1] => i = j
    /\ (prev[1].op = "sg" /\ last[1].op = "sg"
          /\ prev[1].project_id = last[1].project_id
          /\ prev[1].status = "ok" /\ last[1].status = "ok")
       => last[1].result = prev[1].result

\* C8, amended: one security group at most is created for the scope in each
\* VPC (the default VPC when vpc_id is omitted), no create is called for a
\* name the VPC already holds, an invocation given a vpc_id returns the
\* scope's group in that VPC, and one that omits it returns a group of the
\* scope's name.
C8_OneGroupPerScopeAndVpc ==
    /\ \A i, j \in 1..Len(sgCreates) : sgCreates[i] = sgCreates[j] => i = j
    /\ \A i, j \in 1..Len(groups) :
          (groups[i].GroupName = groups[j].GroupName
              /\ groups[i].VpcId = groups[j].VpcId) => i = j
    /\ last[1].op = "sg" => last[1].status \in {"ok", "interrupted"}
    /\ (last[1].op = "sg" /\ last[1].status = "ok")
       => LET g == GroupById(last[1].result[1])
          IN /\ g.GroupName = security_group_name(last[1].project_id)
             /\ last[1].vpc_id # NoVpc => g.VpcId = last[1].vpc_id

\* C8's case: invocations for one scope created a group in each of two VPCs.
C8_Witness ==
    /\ \E i, j \in 1..Len(sgCreates) :
          sgCreates[i][1] = sgCreates[j][1] /\ sgCreates[i][2] # sgCreates[j][2]
    /\ prev[1].op = "sg" /\ last[1].op = "sg"
    /\ prev[1].project_id = last[1].project_id
    /\ prev[1].vpc_id # last[1].vpc_id
    /\ prev[1].status = "ok" /\ last[1].status = "ok"
    /\ last[1].result # prev[1].result

\* C9: the derived names of two distinct scope ids never collide, so a
\* provisioning for one scope never finds, reuses and returns a group that
\* was created, and tagged, for another scope.
C9_NoCrossScopeReuse ==
    (last[1].op \in {"sg", "gw"} /\ last[1].status = "ok")
    => GroupById(last[1].result[1]).Project = last[1].project_id


\* ------------------------------- the identity, one invocation after another

\* The bundle of a project, complete.
Bundle(project_id) ==
    [policies |-> {Entity(policy_name_of(project_id), project_id)},
     roles |-> {Entity(role_name_of(project_id), project_id)},
     attached |-> {<<role_name_of(project_id),
                     PolicyArn(policy_name_of(project_id))>>},
     profiles |-> {Entity(role_name_of(project_id), project_id)},
     profile_roles |-> {<<role_name_of(project_id),
                          role_name_of(project_id)>>}]

InitIAM ==
    /\ iam \in {EmptyIam, Bundle(ProjA), Bundle(ProjC)}
    /\ groups = <<>>
    /\ sgCreates = <<>>
    /\ InitProcs
    /\ net = NoNet /\ want = FALSE /\ subnet = None
    /\ InitPure

NextIAM ==
    \/ StartIAM(1) \/ IamGetRole(1) \/ IamCreatePolicy(1) \/ IamCreateRole(1)
    \/ IamAttachRolePolicy(1) \/ IamGetProfile(1)
    \/ IamCreateInstanceProfile(1) \/ IamAddRole(1)
    \/ Interrupt(1)

SpecIAM == InitIAM /\ [][NextIAM]_vars

\* The calls of fn in a call log.
CallCount(log, fn) == Cardinality({i \in 1..Len(log) : log[i].fn = fn})

\* The identity of a project is complete: its policy exists and is attached
\* to its role, and the role is in its instance profile.
IdentityComplete(project_id) ==
    /\ Named(iam.policies, policy_name_of(project_id))
    /\ Named(iam.roles, role_name_of(project_id))
    /\ Named(iam.profiles, role_name_of(project_id))
    /\ <<role_name_of(project_id), PolicyArn(policy_name_of(project_id))>>
          \in iam.attached
    /\ <<role_name_of(project_id), role_name_of(project_id)>>
          \in iam.profile_roles

\* C2: create_iam_instance_profile run twice in succession with the same
\* scope, the first from a remote with nothing of the scope: the second run
\* returns (unless the remote fails its lookup), with the role name and the
\* ARN the first returned, and create_policy, create_role and
\* create_instance_profile are each called exactly once over the two.
C2_TwiceSameIdentity ==
    (SameArgs("iam") /\ prev[1].fresh /\ prev[1].status = "ok"
        /\ last[1].status \notin {"interrupted"} \cup OtherErrors)
    => /\ last[1].status = "ok"
       /\ last[1].result = prev[1].result
       /\ last[1].role = prev[1].role
       /\ \A fn \in {"create_policy", "create_role", "create_instance_profile"} :
             CallCount(prev[1].calls \o last[1].calls, fn) = 1

\* C2's case: both runs returned, the first having started from nothing.
C2_Witness ==
    /\ SameArgs("iam") /\ prev[1].fresh
    /\ prev[1].status = "ok" /\ last[1].status = "ok"
    /\ Len(prev[1].calls) = 5 /\ last[1].calls = <<>>

\* Process 1 is at a lookup of the identity provisioner.
AtLookup == pc[1] \in {"iam_get_role", "iam_get_profile"}

\* C18: a step of a lookup that ends the invocation with an error (the
\* process was not interrupted) leaves IAM as it was and makes no call: the
\* error is one other than NoSuchEntity, and the record holds the
\* error's code, no result, and the calls made before the lookup. A lookup
\* steps on to a create only when the entity it looked for does not exist;
\* a create or attach call is never made from a lookup step itself.
C18_LookupErrorPropagates ==
    [][AtLookup =>
        /\ iam' = iam
        /\ (pc'[1] = "idle" /\ last'[1].status \notin {"ok", "interrupted"}) =>
              /\ last'[1].status \in OtherErrors
              /\ last'[1].result = None
              /\ last'[1].calls = calls[1]
        /\ pc'[1] = "iam_create_policy" =>
              /\ ~Named(iam.roles, role_name_of(loc[1].project_id))
              /\ calls'[1] = calls[1]
        /\ pc'[1] = "iam_create_instance_profile" =>
              /\ ~Named(iam.profiles, loc[1].role_name[1])
              /\ calls'[1] = calls[1]]_vars

\* C18's case: the instance-profile lookup raised AccessDenied after the
\* role was created, and the profile was not created.
C18_Witness ==
    /\ last[1].op = "iam" /\ last[1].status = "AccessDenied"
    /\ CallCount(last[1].calls, "create_role") = 1
    /\ CallCount(last[1].calls, "create_instance_profile") = 0
    /\ ~Named(iam.profiles, last[1].role[1])

\* C6: create_iam_instance_profile interrupted after one of its remote write
\* calls and run again with the same scope: the second run returns (unless
\* the remote fails its lookup) and the identity is complete.
C6_IdentityResume ==
    (SameArgs("iam") /\ prev[1].status = "interrupted"
        /\ Len(prev[1].calls) >= 1
        /\ last[1].status \notin {"interrupted"} \cup OtherErrors)
    => /\ last[1].status = "ok"
       /\ IdentityComplete(last[1].project_id)

\* ------------------------------------------- concurrent invocations

NextSGConc ==
    \E p \in Procs :
        \/ StartSG(p) \/ SgDescribe(p) \/ SgCreate(p)
        \/ SgRule1(p) \/ SgRule2(p) \/ SgRule3(p)

SpecSGConc == InitSG /\ [][NextSGConc]_vars

NextIAMConc ==
    \E p \in Procs :
        \/ StartIAM(p) \/ IamGetRole(p) \/ IamCreatePolicy(p)
        \/ IamCreateRole(p) \/ IamAttachRolePolicy(p) \/ IamGetProfile(p)
        \/ IamCreateInstanceProfile(p) \/ IamAddRole(p)

SpecIAMConc == InitIAM /\ [][NextIAMConc]_vars

\* C3: two processes run create_security_group for the same scope and vpc_id,
\* each started while no group of the scope existed (so the two overlap):
\* whatever the interleaving, both return, with the same group id, and one
\* group of the scope exists.
C3_ConcurrentSameGroup ==
    (/\ last[1].op = "sg" /\ last[2].op = "sg"
     /\ last[1].project_id = last[2].project_id
     /\ last[1].vpc_id = last[2].vpc_id
     /\ last[1].fresh /\ last[2].fresh)
    => /\ last[1].status = "ok" /\ last[2].status = "ok"
       /\ last[1].result = last[2].result
       /\ Len(describe_security_groups(
                security_group_name(last[1].project_id), NoVpc)) = 1

\* The entity a create call makes.
CreatedKind(fn) ==
    CASE fn = "create_policy" -> "policy"
      [] fn = "create_role" -> "role"
      [] fn = "create_instance_profile" -> "instance_profile"
      [] OTHER -> "none"

\* C4: a create of the identity provisioner that meets an entity a concurrent
\* invocation created after this one's lookup found nothing is a benign race:
\* the invocation looks up again and returns what exists. So no invocation
\* ends with EntityAlreadyExists for an entity that was absent at its lookup.
C4_BenignRace ==
    \A p \in Procs :
        (last[p].op = "iam" /\ last[p].status = "EntityAlreadyExists")
        => CreatedKind(last[p].calls[Len(last[p].calls)].fn) \in last[p].seen

\* ------------------------------------------------ the subnet resolver

\* Subnets a VPC lists.
MaxSubnets == 2

\* The VPC resolved, and another one of the account.
ResolvedVpc == "vpc-1"
ForeignVpc == "vpc-2"

\* Gateway ids are a prefix and a serial; str.startswith reads the prefix.
startswith(s, prefix) == Len(s) > 0 /\ s[1] = prefix

LocalRoute == [GatewayId |-> <<"local">>]
IgwRoute == [GatewayId |-> <<"igw-", "0a">>]
VgwRoute == [GatewayId |-> <<"vgw-", "0b">>]
NatRoute == [NatGatewayId |-> <<"nat-", "0c">>]

\* The route lists a route table of the model has.
Routes(i) ==
    CASE i = 1 -> <<LocalRoute>>
      [] i = 2 -> <<LocalRoute, IgwRoute>>
      [] i = 3 -> <<LocalRoute, NatRoute>>
      [] i = 4 -> <<LocalRoute, NatRoute, IgwRoute>>
      [] i = 5 -> <<LocalRoute, VgwRoute>>

RouteLists == 1..5

RouteTable(vpc, main, subnet_ids, routes) ==
    [VpcId |-> vpc, Main |-> main, SubnetIds |-> subnet_ids,
     Routes |-> routes]

SubnetIdOf(i) == <<"subnet-", i>>

\* _get_subnets_by_vpc_id: describe_subnets filtered by vpc-id.
_get_subnets_by_vpc_id(vpc_id) ==
    SelectSeq(net.subnets, LAMBDA sn : sn.VpcId = vpc_id)

\* describe_route_tables(association.subnet-id = subnet_id).
describe_route_tables_of_subnet(subnet_id) ==
    SelectSeq(net.tables, LAMBDA rt : subnet_id \in rt.SubnetIds)

\* describe_route_tables(association.main = true, vpc-id = vpc_id).
describe_main_route_tables(vpc_id) ==
    SelectSeq(net.tables, LAMBDA rt : rt.Main /\ rt.VpcId = vpc_id)

\* The two loops over route tables and routes: some route has the key, with a
\* value of the prefix.
SomeRoute(route_tables, key, prefix) ==
    \E i \in 1..Len(route_tables) :
        \E j \in 1..Len(route_tables[i].Routes) :
            LET route == route_tables[i].Routes[j]
            IN key \in DOMAIN route /\ startswith(route[key], prefix)

\* Mutant: the main route table is consulted even when the subnet has route
\* tables of its own.
_is_public_subnet_main_always(vpc_id, subnet_id) ==
    \/ SomeRoute(describe_route_tables_of_subnet(subnet_id),
                 "GatewayId", "igw-")
    \/ SomeRoute(describe_main_route_tables(vpc_id), "GatewayId", "igw-")

_is_public_subnet(vpc_id, subnet_id) ==
    LET response == describe_route_tables_of_subnet(subnet_id)
    IN IF SomeRoute(response, "GatewayId", "igw-") THEN TRUE
       ELSE IF Len(response) > 0 THEN FALSE
       ELSE SomeRoute(describe_main_route_tables(vpc_id), "GatewayId", "igw-")

\* Mutant: the main route table is consulted for a NAT route even when the
\* subnet has route tables of its own.
_is_subnet_behind_nat_main_always(vpc_id, subnet_id) ==
    \/ SomeRoute(describe_route_tables_of_subnet(subnet_id),
                 "NatGatewayId", "nat-")
    \/ SomeRoute(describe_main_route_tables(vpc_id), "NatGatewayId", "nat-")

\* Mutant: a subnet with a route table of its own counts as NAT-backed
\* whatever its routes.
_is_subnet_behind_nat_any_route(vpc_id, subnet_id) ==
    LET response == describe_route_tables_of_subnet(subnet_id)
    IN IF Len(response) > 0 THEN TRUE
       ELSE SomeRoute(describe_main_route_tables(vpc_id),
                      "NatGatewayId", "nat-")

_is_subnet_behind_nat(vpc_id, subnet_id) ==
    LET response == describe_route_tables_of_subnet(subnet_id)
    IN IF SomeRoute(response, "NatGatewayId", "nat-") THEN TRUE
       ELSE IF Len(response) > 0 THEN FALSE
       ELSE SomeRoute(describe_main_route_tables(vpc_id),
                      "NatGatewayId", "nat-")

\* Mutant: the loop keeps the last subnet of the wanted kind, not the first.
ScanSubnets_last(subnets, i, vpc_id, allocate_public_ip) ==
    LET hits == {k \in i..Len(subnets) :
                    IF allocate_public_ip
                    THEN _is_public_subnet(vpc_id, subnets[k].SubnetId)
                    ELSE _is_subnet_behind_nat(vpc_id, subnets[k].SubnetId)}
    IN IF hits = {} THEN None
       ELSE Some(subnets[CHOOSE k \in hits : \A m \in hits : m <= k].SubnetId)

RECURSIVE ScanSubnets(_, _, _, _)
\* The loop of get_subnet_id_for_vpc from the i-th subnet on: the first
\* subnet of the wanted kind, or None.
ScanSubnets(subnets, i, vpc_id, allocate_public_ip) ==
    IF i > Len(subnets) THEN None
    ELSE IF allocate_public_ip
    THEN IF _is_public_subnet(vpc_id, subnets[i].SubnetId)
         THEN Some(subnets[i].SubnetId)
         ELSE ScanSubnets(subnets, i + 1, vpc_id, allocate_public_ip)
    ELSE IF _is_subnet_behind_nat(vpc_id, subnets[i].SubnetId)
         THEN Some(subnets[i].SubnetId)
         ELSE ScanSubnets(subnets, i + 1, vpc_id, allocate_public_ip)

get_subnet_id_for_vpc(vpc_id, allocate_public_ip) ==
    LET subnets == _get_subnets_by_vpc_id(vpc_id)
    IN IF Len(subnets) = 0 THEN None
       ELSE ScanSubnets(subnets, 1, vpc_id, allocate_public_ip)

\* The network of a run: n subnets of the resolved VPC, the i-th with the
\* route table own[i] of its own (0: none), the VPC's main route table, and
\* the main route table of another VPC, which routes to an internet gateway.
Network(n, own, main) ==
    [subnets |-> [i \in 1..n |->
                    [SubnetId |-> SubnetIdOf(i), VpcId |-> ResolvedVpc]]
                 \o <<[SubnetId |-> SubnetIdOf(0), VpcId |-> ForeignVpc]>>,
     tables |-> <<RouteTable(ForeignVpc, TRUE, {}, Routes(4)),
                  RouteTable(ResolvedVpc, TRUE, {}, Routes(main))>>
                \o [i \in 1..Cardinality({k \in 1..n : own[k] # 0}) |->
                      LET k == CHOOSE k \in 1..n :
                                /\ own[k] # 0
                                /\ Cardinality({m \in 1..k : own[m] # 0}) = i
                      IN RouteTable(ResolvedVpc, FALSE, {SubnetIdOf(k)},
                                    Routes(own[k]))]]

InitSubnet ==
    /\ \E n \in 0..MaxSubnets :
         \E own \in [1..n -> {0} \cup RouteLists], main \in RouteLists :
            net = Network(n, own, main)
    /\ want \in BOOLEAN
    /\ subnet = None
    /\ groups = <<>> /\ sgCreates = <<>> /\ iam = EmptyIam
    /\ InitProcs
    /\ InitPure

\* get_subnet_id_for_vpc runs: one answer for the network as it is.
Resolve ==
    /\ subnet = None
    /\ subnet' = Some(get_subnet_id_for_vpc(ResolvedVpc, want))
    /\ UNCHANGED <<groups, sgCreates, iam, pc, loc, calls, last, prev, ninv,
                   net, want, pureVars>>

NextSubnet == Resolve

SpecSubnet == InitSubnet /\ [][NextSubnet]_vars

\* The route tables that route a subnet: those associated with it or, when
\* there is none, the main route table of its VPC.
RoutingTables(sn) ==
    LET own == {i \in 1..Len(net.tables) :
                    sn.SubnetId \in net.tables[i].SubnetIds}
    IN IF own # {} THEN own
       ELSE {i \in 1..Len(net.tables) :
                net.tables[i].Main /\ net.tables[i].VpcId = sn.VpcId}

RoutesToInternetGateway(sn) ==
    \E i \in RoutingTables(sn) :
        \E j \in 1..Len(net.tables[i].Routes) :
            net.tables[i].Routes[j] = IgwRoute

RoutesToNatGateway(sn) ==
    \E i \in RoutingTables(sn) :
        \E j \in 1..Len(net.tables[i].Routes) :
            net.tables[i].Routes[j] = NatRoute

\* The subnets the resolved VPC lists, in listing order.
Listed == SelectSeq(net.subnets, LAMBDA sn : sn.VpcId = ResolvedVpc)

\* C10: a subnet routed to an internet gateway (the first such of the VPC) is
\* the answer when a public IP is wanted; a subnet routed to a NAT gateway
\* and to no internet gateway is never the answer then (the answer is None
\* when the VPC has no other kind), and is the answer (the first such) when
\* no public IP is wanted.
C10_SubnetByRoute ==
    subnet # None =>
      /\ \A i \in 1..Len(Listed) :
           (/\ want /\ RoutesToInternetGateway(Listed[i])
            /\ \A k \in 1..(i - 1) : ~RoutesToInternetGateway(Listed[k]))
           => subnet[1] = Some(Listed[i].SubnetId)
      /\ \A i \in 1..Len(Listed) :
           (RoutesToNatGateway(Listed[i])
              /\ ~RoutesToInternetGateway(Listed[i]))
           => /\ want => subnet[1] # Some(Listed[i].SubnetId)
              /\ (/\ ~want
                  /\ \A k \in 1..(i - 1) : ~RoutesToNatGateway(Listed[k]))
                 => subnet[1] = Some(Listed[i].SubnetId)
      /\ (want /\ \A i \in 1..Len(Listed) :
                     ~RoutesToInternetGateway(Listed[i]))
         => subnet[1] = None

\* C10's case: the resolver ran on a VPC with a NAT-only subnet of its own
\* route table and a subnet routed to an internet gateway, and answered with
\* a subnet.
C10_Witness ==
    /\ subnet # None /\ subnet[1] # None
    /\ \E i \in 1..Len(Listed) :
          RoutesToNatGateway(Listed[i]) /\ ~RoutesToInternetGateway(Listed[i])
    /\ \E i \in 1..Len(Listed) : RoutesToInternetGateway(Listed[i])

\* The listed subnet the resolver answered with.
Answered == subnet # None /\ subnet[1] # None

AnsweredSubnet ==
    Listed[CHOOSE i \in 1..Len(Listed) : Listed[i].SubnetId = subnet[1][1]]

ExplicitTables(sn) ==
    {i \in 1..Len(net.tables) : sn.SubnetId \in net.tables[i].SubnetIds}

MainTables(vpc) ==
    {i \in 1..Len(net.tables) :
        net.tables[i].Main /\ net.tables[i].VpcId = vpc}

HasRoute(tables, route) ==
    \E i \in tables :
        \E j \in 1..Len(net.tables[i].Routes) : net.tables[i].Routes[j] = route

\* C15: a subnet with an explicit route table is public (NAT-backed) exactly
\* when an explicit table has an internet-gateway (NAT-gateway) route,
\* whatever the VPC's main route table holds; a subnet with no explicit
\* route table is public (NAT-backed) exactly when the main route table of
\* its VPC has such a route.
C15_MainTableOnlyWithoutExplicit ==
    \A i \in 1..Len(Listed) :
        LET sn == Listed[i]
            tables == IF ExplicitTables(sn) # {} THEN ExplicitTables(sn)
                      ELSE MainTables(sn.VpcId)
        IN /\ _is_public_subnet(sn.VpcId, sn.SubnetId)
                <=> HasRoute(tables, IgwRoute)
           /\ _is_subnet_behind_nat(sn.VpcId, sn.SubnetId)
                <=> HasRoute(tables, NatRoute)

\* C15's case: the resolver ran on a VPC whose main route table has
\* internet-gateway and NAT-gateway routes, with a subnet whose explicit
\* route table has neither and a subnet with no explicit route table.
C15_Witness ==
    /\ subnet # None
    /\ HasRoute(MainTables(ResolvedVpc), IgwRoute)
    /\ HasRoute(MainTables(ResolvedVpc), NatRoute)
    /\ \E i \in 1..Len(Listed) :
          /\ ExplicitTables(Listed[i]) # {}
          /\ ~HasRoute(ExplicitTables(Listed[i]), IgwRoute)
          /\ ~HasRoute(ExplicitTables(Listed[i]), NatRoute)
    /\ \E i \in 1..Len(Listed) : ExplicitTables(Listed[i]) = {}

\* A listed subnet is of the kind asked for: routed to an internet gateway
\* when a public IP is wanted, routed to a NAT gateway when not.
MatchesRequest(sn) ==
    LET tables == IF ExplicitTables(sn) # {} THEN ExplicitTables(sn)
                  ELSE MainTables(sn.VpcId)
    IN IF want THEN HasRoute(tables, IgwRoute) ELSE HasRoute(tables, NatRoute)

\* C16: the answer is the first listed subnet of the kind asked for (no
\* earlier listed subnet is of that kind), it is None exactly when no listed
\* subnet is of that kind, which includes a VPC with no subnet, and the
\* resolution has written nothing: no group or IAM entity exists and no
\* write call is logged.
C16_FirstMatchInListingOrder ==
    subnet # None =>
      /\ subnet[1] # None =>
            \E i \in 1..Len(Listed) :
                /\ subnet[1] = Some(Listed[i].SubnetId)
                /\ MatchesRequest(Listed[i])
                /\ \A k \in 1..(i - 1) : ~MatchesRequest(Listed[k])
      /\ subnet[1] = None <=>
            \A i \in 1..Len(Listed) : ~MatchesRequest(Listed[i])
      /\ groups = <<>> /\ sgCreates = <<>> /\ iam = EmptyIam
      /\ \A p \in Procs : calls[p] = <<>>

\* C16's case: two listed subnets are of the kind asked for and the resolver
\* answered.
C16_Witness ==
    /\ Answered
    /\ Len(Listed) = 2
    /\ MatchesRequest(Listed[1]) /\ MatchesRequest(Listed[2])

\* ------------------------------------------------ image resolution

\* Images the account lists.
MaxImages == 3

\* version.base_image, and the two image names get_image_id asks for.
base_image == "0.0"

image_name(cuda) ==
    IF ~cuda THEN <<"dstack-", base_image>> ELSE <<"dstack-cuda-", base_image>>

\* CreationDate is an ISO timestamp: a string of fixed length, here its year
\* and month digits. Strings compare character by character.
RECURSIVE StrLess(_, _)
StrLess(a, b) ==
    IF b = <<>> THEN FALSE
    ELSE IF a = <<>> THEN TRUE
    ELSE IF a[1] # b[1] THEN a[1] < b[1]
    ELSE StrLess(Tail(a), Tail(b))

CreationDates == {<<1, 2>>, <<2, 1>>, <<2, 2>>}

ImageStates == {"available", "pending"}

Image(i, name, state, date) ==
    [ImageId |-> <<"ami-", i>>, Name |-> name, State |-> state,
     CreationDate |-> date]

\* describe_images(Filters=[name = image_name]).
describe_images(name) == SelectSeq(images, LAMBDA i : i.Name = name)

\* sorted(xs, key=CreationDate, reverse=True): the sort is stable, so images
\* of one date keep the order of the listing.
RECURSIVE InsertByDate(_, _)
InsertByDate(x, sorted) ==
    IF sorted = <<>> THEN <<x>>
    ELSE IF StrLess(Head(sorted).CreationDate, x.CreationDate)
    THEN <<x>> \o sorted
    ELSE <<Head(sorted)>> \o InsertByDate(x, Tail(sorted))

RECURSIVE SortedByDateReversed(_)
SortedByDateReversed(xs) ==
    IF xs = <<>> THEN <<>>
    ELSE InsertByDate(xs[Len(xs)],
                      SortedByDateReversed(SubSeq(xs, 1, Len(xs) - 1)))

\* Mutant: the images are not filtered by state.
get_image_id_any_state(cuda) ==
    LET sorted == SortedByDateReversed(describe_images(image_name(cuda)))
    IN IF sorted = <<>>
       THEN [status |-> "ComputeResourceNotFoundError", id |-> None]
       ELSE [status |-> "ok", id |-> Some(sorted[1].ImageId)]

\* get_image_id: the outcome is the id returned or the error raised.
get_image_id(cuda) ==
    LET response == describe_images(image_name(cuda))
        sorted == SortedByDateReversed(
                    SelectSeq(response, LAMBDA i : i.State = "available"))
    IN IF sorted = <<>>
       THEN [status |-> "ComputeResourceNotFoundError", id |-> None]
       ELSE [status |-> "ok", id |-> Some(sorted[1].ImageId)]

\* No provisioning has run and no subnet is resolved.
InitRemote ==
    /\ groups = <<>> /\ sgCreates = <<>> /\ iam = EmptyIam
    /\ InitProcs
    /\ net = NoNet /\ want = FALSE /\ subnet = None

InitImage ==
    /\ \E n \in 0..MaxImages :
         \E name \in [1..n -> {image_name(FALSE), image_name(TRUE)}],
            state \in [1..n -> ImageStates],
            date \in [1..n -> CreationDates] :
            images = [i \in 1..n |-> Image(i, name[i], state[i], date[i])]
    /\ image = None /\ struct = None /\ matched = None
    /\ InitRemote

\* get_image_id runs for one variant.
GetImage ==
    /\ image = None
    /\ \E cuda \in BOOLEAN :
         image' = Some([cuda |-> cuda, outcome |-> get_image_id(cuda)])
    /\ UNCHANGED <<groups, sgCreates, iam, pc, loc, calls, last, prev, ninv,
                   netVars, images, struct, matched>>

NextImage == GetImage

SpecImage == InitImage /\ [][NextImage]_vars

\* The images of the variant asked for that are available.
Available(cuda) ==
    {i \in 1..Len(images) :
        images[i].Name = image_name(cuda) /\ images[i].State = "available"}

\* C12: when get_image_id has run, its outcome is an id exactly when some
\* image of the name asked for is available; the id is then that of an
\* available image no other available image is newer than, whatever the
\* dates of the images in other states; otherwise the outcome is
\* ComputeResourceNotFoundError and no id.
C12_LatestAvailableImage ==
    image # None =>
      LET cuda == image[1].cuda
          outcome == image[1].outcome
      IN IF Available(cuda) = {}
         THEN outcome.status = "ComputeResourceNotFoundError"
              /\ outcome.id = None
         ELSE /\ outcome.status = "ok"
              /\ \E i \in Available(cuda) :
                    /\ outcome.id = Some(images[i].ImageId)
                    /\ \A k \in Available(cuda) :
                          ~StrLess(images[i].CreationDate,
                                   images[k].CreationDate)

\* C12's case: get_image_id returned an id while an image of the name that
\* is not available is newer than every available one, and an older
\* available one is listed too.
C12_Witness ==
    /\ image # None /\ image[1].outcome.status = "ok"
    /\ Cardinality(Available(image[1].cuda)) = 2
    /\ \E j \in 1..Len(images) :
          /\ images[j].Name = image_name(image[1].cuda)
          /\ images[j].State # "available"
          /\ \A k \in Available(image[1].cuda) :
                StrLess(images[k].CreationDate, images[j].CreationDate)
    /\ \E i, k \in Available(image[1].cuda) :
          StrLess(images[i].CreationDate, images[k].CreationDate)

\* ------------------------------------------------ the launch struct

\* Python's truth value of an Optional[str]: None and "" are false.
Truthy(x) == x # None /\ x[1] # ""

\* Lines 197-218: the fields every struct has.
BaseStruct(disk_size, image_id, instance_type, user_data, tags) ==
    [BlockDeviceMappings |->
        <<[DeviceName |-> "/dev/sda1",
           Ebs |-> [VolumeSize |-> disk_size, VolumeType |-> "gp2"]]>>,
     ImageId |-> image_id,
     InstanceType |-> instance_type,
     MinCount |-> 1,
     MaxCount |-> 1,
     UserData |-> user_data,
     TagSpecifications |-> <<[ResourceType |-> "instance", Tags |-> tags]>>]

\* No key added.
NoKeys == [k \in {} |-> {}]

\* Mutant: the profile is attached whenever the ARN is not None.
IdentityAttachment_not_none(iam_instance_profile_arn) ==
    IF iam_instance_profile_arn # None
    THEN [IamInstanceProfile |-> [Arn |-> iam_instance_profile_arn[1]]]
    ELSE NoKeys

\* Lines 219-220: if iam_instance_profile_arn.
IdentityAttachment(iam_instance_profile_arn) ==
    IF Truthy(iam_instance_profile_arn)
    THEN [IamInstanceProfile |-> [Arn |-> iam_instance_profile_arn[1]]]
    ELSE NoKeys

\* Lines 221-228: if spot.
MarketOptions(spot) ==
    IF spot
    THEN [InstanceMarketOptions |->
            [MarketType |-> "spot",
             SpotOptions |-> [SpotInstanceType |-> "one-time",
                              InstanceInterruptionBehavior |-> "terminate"]]]
    ELSE NoKeys

\* Mutant: the instance-level security group is set with or without a
\* subnet.
NetworkAttachment_both(subnet_id, allocate_public_ip, security_group_id) ==
    [SecurityGroupIds |-> <<security_group_id>>]
    @@ (IF subnet_id # None
        THEN [NetworkInterfaces |->
                <<[AssociatePublicIpAddress |-> allocate_public_ip,
                   DeviceIndex |-> 0, SubnetId |-> subnet_id[1],
                   Groups |-> <<security_group_id>>]>>]
        ELSE NoKeys)

\* Lines 229-241: if subnet_id is not None, else.
NetworkAttachment(subnet_id, allocate_public_ip, security_group_id) ==
    IF subnet_id # None
    THEN [NetworkInterfaces |->
            <<[AssociatePublicIpAddress |-> allocate_public_ip,
               DeviceIndex |-> 0, SubnetId |-> subnet_id[1],
               Groups |-> <<security_group_id>>]>>]
    ELSE [SecurityGroupIds |-> <<security_group_id>>]

create_instances_struct(disk_size, image_id, instance_type, iam_instance_profile_arn, user_data, tags, security_group_id, spot, subnet_id, allocate_public_ip) ==
    BaseStruct(disk_size, image_id, instance_type, user_data, tags)
    @@ IdentityAttachment(iam_instance_profile_arn)
    @@ MarketOptions(spot)
    @@ NetworkAttachment(subnet_id, allocate_public_ip, security_group_id)

\* The arguments of a call.
StructArgs ==
    [disk_size : {8, 100},
     image_id : {"ami-1"},
     instance_type : {"t2.small"},
     iam_instance_profile_arn : {None, Some(""), Some("arn:profile")},
     user_data : {"", "#!/bin/sh"},
     tags : {<<>>, <<[Key |-> "owner", Value |-> "dstack"]>>},
     security_group_id : {"sg-1", "sg-2"},
     spot : BOOLEAN,
     subnet_id : {None, Some(""), Some("subnet-1")},
     allocate_public_ip : BOOLEAN]

InitStruct ==
    /\ \E args \in StructArgs : struct = [args |-> args, result |-> None]
    /\ images = <<>> /\ image = None /\ matched = None
    /\ InitRemote

\* create_instances_struct runs on the arguments.
BuildStruct ==
    /\ struct.result = None
    /\ LET a == struct.args
       IN struct' = [struct EXCEPT !.result =
            Some(create_instances_struct(
                    a.disk_size, a.image_id, a.instance_type,
                    a.iam_instance_profile_arn, a.user_data, a.tags,
                    a.security_group_id, a.spot, a.subnet_id,
                    a.allocate_public_ip))]
    /\ UNCHANGED <<groups, sgCreates, iam, pc, loc, calls, last, prev, ninv,
                   netVars, images, image, matched>>

NextStruct == BuildStruct

SpecStruct == InitStruct /\ [][NextStruct]_vars

\* The struct built.
Built == struct.result # None

\* C13: a struct built with a subnet_id has NetworkInterfaces, one interface
\* of that subnet with the public-IP flag and the security group, and no
\* SecurityGroupIds; a struct built with subnet_id None has SecurityGroupIds,
\* the one security group, and no NetworkInterfaces.
C13_OneNetworkAttachment ==
    Built =>
      LET a == struct.args
          s == struct.result[1]
      IN IF a.subnet_id # None
         THEN /\ "NetworkInterfaces" \in DOMAIN s
              /\ "SecurityGroupIds" \notin DOMAIN s
              /\ Len(s.NetworkInterfaces) = 1
              /\ s.NetworkInterfaces[1].SubnetId = a.subnet_id[1]
              /\ s.NetworkInterfaces[1].AssociatePublicIpAddress
                    = a.allocate_public_ip
              /\ s.NetworkInterfaces[1].Groups = <<a.security_group_id>>
         ELSE /\ "SecurityGroupIds" \in DOMAIN s
              /\ "NetworkInterfaces" \notin DOMAIN s
              /\ s.SecurityGroupIds = <<a.security_group_id>>

\* C13's case: a struct was built for a subnet, without a public IP.
C13_Witness ==
    /\ Built
    /\ struct.args.subnet_id = Some("subnet-1")
    /\ ~struct.args.allocate_public_ip
    /\ "NetworkInterfaces" \in DOMAIN struct.result[1]

\* C14: a struct built has IamInstanceProfile, with the ARN, exactly when an
\* ARN was given (not None and not the empty string); it has
\* InstanceMarketOptions, spot, one-time, terminate, exactly when spot was
\* asked for; and it always has MinCount = MaxCount = 1, the boot volume of
\* the size given, the image id, the instance type, the user data and the
\* tags.
C14_ConditionalAndFixedFields ==
    Built =>
      LET a == struct.args
          s == struct.result[1]
      IN /\ "IamInstanceProfile" \in DOMAIN s
              <=> Truthy(a.iam_instance_profile_arn)
         /\ "IamInstanceProfile" \in DOMAIN s
              => s.IamInstanceProfile = [Arn |-> a.iam_instance_profile_arn[1]]
         /\ "InstanceMarketOptions" \in DOMAIN s <=> a.spot
         /\ "InstanceMarketOptions" \in DOMAIN s
              => /\ s.InstanceMarketOptions.MarketType = "spot"
                 /\ s.InstanceMarketOptions.SpotOptions.SpotInstanceType
                      = "one-time"
                 /\ s.InstanceMarketOptions.SpotOptions
                        .InstanceInterruptionBehavior = "terminate"
         /\ {"MinCount", "MaxCount", "BlockDeviceMappings", "ImageId",
             "InstanceType", "UserData", "TagSpecifications"}
                \subseteq DOMAIN s
         /\ s.MinCount = 1 /\ s.MaxCount = 1
         /\ Len(s.BlockDeviceMappings) = 1
         /\ s.BlockDeviceMappings[1].Ebs.VolumeSize = a.disk_size
         /\ s.ImageId = a.image_id
         /\ s.InstanceType = a.instance_type
         /\ s.UserData = a.user_data
         /\ Len(s.TagSpecifications) = 1
         /\ s.TagSpecifications[1].Tags = a.tags

\* C14's case: structs were built with an ARN for spot.
C14_Witness ==
    /\ Built
    /\ struct.args.iam_instance_profile_arn = Some("arn:profile")
    /\ struct.args.spot
    /\ "IamInstanceProfile" \in DOMAIN struct.result[1]

\* ------------------------------------------------ the matcher's operands

\* Keys and elements added to the second operand, and the nesting depth at
\* which they are added.
MaxExt == 2
MaxDepth == 2

\* The operands _is_subset is called with: scalars, lists, the rules the
\* code requires and rules as the remote reports them.
Operand(i) ==
    CASE i = 1 -> PyStr("tcp")
      [] i = 2 -> PyInt(22)
      [] i = 3 -> PyDict(NoKeys)
      [] i = 4 -> PyList(<<>>)
      [] i = 5 -> PyList(<<PyDict([CidrIp |-> PyStr("0.0.0.0/0")])>>)
      [] i = 6 -> PyList(<<PyDict([CidrIp |-> PyStr("0.0.0.0/0")]),
                           PyDict([CidrIp |-> PyStr("10.0.0.0/8")])>>)
      [] i = 7 -> SshRule
      [] i = 8 -> ReportedSshRule
      [] i = 9 -> WideSshRule
      [] i = 10 -> SelfRule(1)
      [] i = 11 -> ReportedSelfRule(1)
      [] i = 12 -> EgressRule

Operands == 1..12

\* A value a key is added with, and an element a list is extended by.
ExtraValue(i) ==
    CASE i = 1 -> PyStr("extra")
      [] i = 2 -> PyDict(NoKeys)

ExtraElement(i) ==
    CASE i = 1 -> PyDict([CidrIp |-> PyStr("10.0.0.0/8")])
      [] i = 2 -> PyStr("extra")

ExtraKeys == {"Description", "UserId"}

\* A path into a value: each step is a key of a dict (i = 0) or an index of
\* a list.
PathSteps ==
    [k : {"IpRanges", "UserIdGroupPairs"} \cup ExtraKeys, i : {0}]
    \cup [k : {""}, i : 1..(2 + MaxExt)]

Paths == UNION {[1..n -> PathSteps] : n \in 0..MaxDepth}

RECURSIVE At(_, _)
\* The value at a path, if the path leads to one.
At(v, path) ==
    IF path = <<>> THEN Some(v)
    ELSE LET s == Head(path)
         IN IF s.i = 0
            THEN IF v.t = "dict" /\ s.k \in DOMAIN v.v
                 THEN At(v.v[s.k], Tail(path)) ELSE None
            ELSE IF v.t = "list" /\ s.i <= Len(v.v)
                 THEN At(v.v[s.i], Tail(path)) ELSE None

RECURSIVE Replace(_, _, _)
\* The value with the value at a path replaced.
Replace(v, path, new) ==
    IF path = <<>> THEN new
    ELSE LET s == Head(path)
         IN IF s.i = 0
            THEN PyDict([v.v EXCEPT ![s.k] = Replace(@, Tail(path), new)])
            ELSE PyList([v.v EXCEPT ![s.i] = Replace(@, Tail(path), new)])

InitMatcher ==
    /\ \E i, j \in Operands :
         matched = [subset |-> Operand(i), superset |-> Operand(j),
                    verdict |-> None, before |-> None, kind |-> "none",
                    ext |-> 0]
    /\ images = <<>> /\ image = None /\ struct = None
    /\ InitRemote

\* _is_subset runs on the operands.
Match ==
    /\ matched.verdict = None
    /\ matched' = [matched EXCEPT
            !.verdict = Some(_is_subset(matched.subset, matched.superset))]
    /\ UNCHANGED <<groups, sgCreates, iam, pc, loc, calls, last, prev, ninv,
                   netVars, images, image, struct>>

\* The second operand as it is with new in place of what it has at path, and
\* _is_subset run again on it.
Rematch(path, new, kind) ==
    LET superset == Replace(matched.superset, path, new)
    IN /\ matched' = [matched EXCEPT
                !.superset = superset,
                !.verdict = Some(_is_subset(matched.subset, superset)),
                !.before = matched.verdict,
                !.kind = kind,
                !.ext = @ + 1]
       /\ UNCHANGED <<groups, sgCreates, iam, pc, loc, calls, last, prev,
                      ninv, netVars, images, image, struct>>

\* A dict inside the second operand gets a key it did not have.
AddKey ==
    /\ matched.verdict # None
    /\ matched.ext < MaxExt
    /\ \E path \in Paths, key \in ExtraKeys, x \in 1..2 :
         LET d == At(matched.superset, path)
         IN /\ d # None
            /\ d[1].t = "dict"
            /\ key \notin DOMAIN d[1].v
            /\ Rematch(path, PyDict((key :> ExtraValue(x)) @@ d[1].v), "key")

\* A list inside the second operand gets one more element.
AppendElement ==
    /\ matched.verdict # None
    /\ matched.ext < MaxExt
    /\ \E path \in Paths, x \in 1..2 :
         LET l == At(matched.superset, path)
         IN /\ l # None
            /\ l[1].t = "list"
            /\ Rematch(path, PyList(Append(l[1].v, ExtraElement(x))), "elem")

NextMatcher == Match \/ AddKey \/ AppendElement

SpecMatcher == InitMatcher /\ [][NextMatcher]_vars

\* C19: when _is_subset held of the operands and a dict inside the second
\* operand, at any depth, then got a key it did not have, _is_subset holds
\* of the operands still.
C19_MonotonicUnderExtension ==
    (matched # None /\ matched.kind = "key" /\ matched.before = Some(TRUE))
    => matched.verdict = Some(TRUE)

\* C19's case: a rule the code requires was matched against a rule of the
\* remote, which then got a key inside an entry of a list of it.
C19_Witness ==
    /\ matched # None /\ matched.kind = "key"
    /\ matched.before = Some(TRUE) /\ matched.verdict = Some(TRUE)
    /\ matched.subset = SshRule
    /\ "UserId" \in DOMAIN matched.superset.v.IpRanges.v[1].v

\* C20: _is_subset does not hold of operands that have, at the same place,
\* lists of different lengths: of two lists of different lengths, and of a
\* required rule and a rule whose list field has more entries than the
\* required rule's, however the entries at the same positions compare.
C20_ListsOfEqualLength ==
    (matched # None /\ matched.verdict # None) =>
      \A path \in Paths :
        LET p == At(matched.subset, path)
            v == At(matched.superset, path)
        IN (/\ p # None /\ v # None
            /\ p[1].t = "list" /\ v[1].t = "list"
            /\ Len(p[1].v) # Len(v[1].v))
           => matched.verdict = Some(FALSE)

\* C20's case: the required SSH rule was present in a rule of the remote
\* until the rule's IpRanges got a second entry; the first entry still
\* satisfies the required rule's only entry.
C20_Witness ==
    /\ matched # None /\ matched.kind = "elem"
    /\ matched.before = Some(TRUE) /\ matched.verdict = Some(FALSE)
    /\ matched.subset = SshRule
    /\ Len(matched.superset.v.IpRanges.v) = 2
    /\ _is_subset(SshRule.v.IpRanges.v[1], matched.superset.v.IpRanges.v[1])

====
